---- MODULE Spec2Model ----
(***************************************************************************)
(* The ring state machine of the rotating board game: the Board component  *)
(* of prototype/src/components/Board.tsx with the controls that call it    *)
(* (Ring, TilePalette, ActionPanel, DevControls).  Every handler is one    *)
(* atomic action: React runs a handler to completion against the values of *)
(* the render it closed over, then applies the queued state updates.       *)
(***************************************************************************)
EXTENDS Integers, Sequences, FiniteSets, TLC

VARIABLES
    gamePhase,              \* "setup" | "playing"
    slotCount,              \* N, the number of slots of the ring
    players,                \* player id -> slotIndex
    slots,                  \* slot index -> [filled, tile]
    selectedTile,           \* the palette tile in hand, or NoTile
    selectedGroup,          \* the selection: [isNull, members]
    currentPlayerIndex,
    hasRotatedThisTurn,
    hasPlacedTileThisTurn,
    playerResources,        \* player id -> resources
    playerVictoryPoints,    \* player id -> victory points
    playerRotationPoints,   \* player id -> rotation points
    actionUndoStack,        \* sequence of snapshots
    actionRedoStack,
    currentTurnStartState,  \* <<>> (null) or <<snapshot>>
    turnUndoStack,
    turnRedoStack,
    nextTileId,             \* the next fresh tile id the palette hands out
    saves,                  \* SaveManager's save slots: a sequence of stored snapshots
    found,                  \* history: what the board found persisted when it was constructed
    turnStart,              \* history: the game as it was when the current turn began, <<>> when not known
    steps,                  \* number of handlers run so far
    last,                   \* history: the handler that ran last, with its arguments
    prev,                   \* history: the game state that handler started from
    last2,                  \* history: the handler that ran before last
    prev2                   \* history: the game state that one started from

vars == <<gamePhase, slotCount, players, slots, selectedTile, selectedGroup, currentPlayerIndex, hasRotatedThisTurn, hasPlacedTileThisTurn, playerResources, playerVictoryPoints, playerRotationPoints, actionUndoStack, actionRedoStack, currentTurnStartState, turnUndoStack, turnRedoStack, nextTileId, saves, found, turnStart, steps, last, prev, last2, prev2>>

---------------------------------------------------------------------------
(* Bounds of the model *)

\* handlers run in one behaviour of the game session
MaxSteps == 4
\* largest ring of the movement specification
MaxRing == 8
\* largest step count a move is issued with
MaxAmount == 4
\* largest counter value an effect pass starts from
MaxRes == 2
EffectRing == 2
SessionRing == 3
\* handlers run in one behaviour of the load specification
MaxLoadSteps == 2
ConnectRing == 6
PassRing == 5
SkipRing == 3
ChainRing == 5
ExtraAmount == 2

---------------------------------------------------------------------------
(* Values *)

\* an absent optional field (undefined)
Undefined == 0 - 1

Min(S) == CHOOSE x \in S : \A y \in S : x <= y

\* JavaScript's remainder: the sign of the dividend
JsRem(a, n) == IF a >= 0 THEN a % n ELSE 0 - ((0 - a) % n)

\* ((x % n) + n) % n, the source's wrap of an index onto the ring
Wrap(x, n) == JsRem(JsRem(x, n) + n, n)

NoTile == [id |-> Undefined, typeId |-> "undefined", value |-> Undefined, ownerId |-> Undefined, direction |-> "undefined"]

MkTile(id, typeId, value, ownerId, direction) == [id |-> id, typeId |-> typeId, value |-> value, ownerId |-> ownerId, direction |-> direction]

EmptySlot == [filled |-> FALSE, tile |-> NoTile]

FilledSlot(tile) == [filled |-> TRUE, tile |-> tile]

NullGroup == [isNull |-> TRUE, members |-> {}]

Group(g) == [isNull |-> FALSE, members |-> g]

Indices(n) == 0 .. (n - 1)

---------------------------------------------------------------------------
(* Construction helpers *)

createInitialSlots(count) == [i \in Indices(count) |-> EmptySlot]

\* Math.round(i * slotCount / playerCount) % slotCount; Math.round rounds half up
createPlayers(playerCount, n) == [i \in Indices(playerCount) |-> ((2 * i * n + playerCount) \div (2 * playerCount)) % n]

areAllSlotsFilled(currentSlots) == \A i \in DOMAIN currentSlots : currentSlots[i].filled

---------------------------------------------------------------------------
(* Connectivity *)

RECURSIVE ConnectedLoop(_, _, _, _, _)
ConnectedLoop(queue, visited, group, currentSlots, n) ==
    IF queue = <<>> THEN group
    ELSE LET slotIndex == Head(queue)
             rest == Tail(queue)
         IN  IF slotIndex \in visited THEN ConnectedLoop(rest, visited, group, currentSlots, n)
             ELSE LET seen == visited \cup {slotIndex}
                  IN  IF ~currentSlots[slotIndex].filled THEN ConnectedLoop(rest, seen, group, currentSlots, n)
                      ELSE LET leftNeighbor == (slotIndex - 1 + n) % n
                               rightNeighbor == (slotIndex + 1) % n
                               q1 == IF leftNeighbor \notin seen /\ currentSlots[leftNeighbor].filled THEN Append(rest, leftNeighbor) ELSE rest
                               q2 == IF rightNeighbor \notin seen /\ currentSlots[rightNeighbor].filled THEN Append(q1, rightNeighbor) ELSE q1
                           IN  ConnectedLoop(q2, seen, group \cup {slotIndex}, currentSlots, n)

\* variant: slot n-1 and slot 0 are not neighbours
findConnectedGroupNoWrap(startSlotIndex, currentSlots, n) ==
    IF ~currentSlots[startSlotIndex].filled THEN {}
    ELSE {i \in Indices(n) : \A j \in Indices(n) : ((i <= j /\ j <= startSlotIndex) \/ (startSlotIndex <= j /\ j <= i)) => currentSlots[j].filled}

findConnectedGroup(startSlotIndex, currentSlots, n) == ConnectedLoop(<<startSlotIndex>>, {}, {}, currentSlots, n)

---------------------------------------------------------------------------
(* Movement engine *)

DirStep(direction) == IF direction = "clockwise" THEN 1 ELSE 0 - 1

getLeadingEdge(group, direction, n) == {index \in group : Wrap(index + DirStep(direction), n) \notin group}

\* variant: the scan ahead of a leading edge sees no tile
EdgeDistanceBlind(edgeIndex, group, direction, workingSlots, n) == n

EdgeDistance(edgeIndex, group, direction, workingSlots, n) ==
    LET hits == {dist \in 1 .. (n - 1) : workingSlots[Wrap(edgeIndex + DirStep(direction) * dist, n)].filled /\ Wrap(edgeIndex + DirStep(direction) * dist, n) \notin group}
    IN  IF hits = {} THEN n ELSE Min(hits)

findDistanceToCollision(group, direction, workingSlots, n) == Min({n} \cup {EdgeDistance(e, group, direction, workingSlots, n) : e \in getLeadingEdge(group, direction, n)})

\* variant: every move goes clockwise
MovedIndexClockwise(oldIndex, direction, amount, n) == Wrap(oldIndex + amount, n)

MovedIndex(oldIndex, direction, amount, n) == Wrap(oldIndex + DirStep(direction) * amount, n)

\* variant: the old positions are not cleared before the tiles are set down
applyGroupMoveKeepsOld(group, direction, amount, workingSlots, n) ==
    LET sources(i) == {oldIndex \in group : MovedIndex(oldIndex, direction, amount, n) = i}
        newSlots == [i \in DOMAIN workingSlots |-> IF sources(i) # {} THEN [filled |-> TRUE, tile |-> workingSlots[CHOOSE o \in sources(i) : TRUE].tile] ELSE workingSlots[i]]
    IN  [newSlots |-> newSlots, newGroupIndices |-> {MovedIndex(oldIndex, direction, amount, n) : oldIndex \in group}]

applyGroupMove(group, direction, amount, workingSlots, n) ==
    LET cleared == [i \in DOMAIN workingSlots |-> IF i \in group THEN EmptySlot ELSE workingSlots[i]]
        sources(i) == {oldIndex \in group : MovedIndex(oldIndex, direction, amount, n) = i}
        newSlots == [i \in DOMAIN workingSlots |-> IF sources(i) # {} THEN [filled |-> TRUE, tile |-> workingSlots[CHOOSE o \in sources(i) : TRUE].tile] ELSE cleared[i]]
    IN  [newSlots |-> newSlots, newGroupIndices |-> {MovedIndex(oldIndex, direction, amount, n) : oldIndex \in group}]

\* variant: a group that touches another does not take it along
MergedGroupAlone(currentGroup, direction, workingSlots, n) == currentGroup

\* variant: a group takes along the slots it touches and no more of their groups
MergedGroupTouched(currentGroup, direction, workingSlots, n) ==
    currentGroup \cup {c \in Indices(n) : /\ workingSlots[c].filled
                                          /\ c \notin currentGroup
                                          /\ \E e \in getLeadingEdge(currentGroup, direction, n) : c = Wrap(e + DirStep(direction), n)}

\* the slots a group at the leading edge touches, each with its whole connected group
MergedGroup(currentGroup, direction, workingSlots, n) ==
    LET collisionIndices == {c \in Indices(n) : /\ workingSlots[c].filled
                                                 /\ c \notin currentGroup
                                                 /\ \E e \in getLeadingEdge(currentGroup, direction, n) : c = Wrap(e + DirStep(direction), n)}
    IN  currentGroup \cup UNION {findConnectedGroup(c, workingSlots, n) : c \in collisionIndices}

\* variant: the full-distance branch charges the distance to the collision
FullDistanceOvershoot(workingSlots, currentGroup, remainingMovement, direction, n) ==
    LET result == applyGroupMove(currentGroup, direction, remainingMovement, workingSlots, n)
    IN  [slots |-> result.newSlots, group |-> result.newGroupIndices, remainingMovement |-> remainingMovement - findDistanceToCollision(currentGroup, direction, workingSlots, n)]

\* variant: the full-distance branch stops one slot short
FullDistanceShort(workingSlots, currentGroup, remainingMovement, direction, n) ==
    LET result == applyGroupMove(currentGroup, direction, remainingMovement - 1, workingSlots, n)
    IN  [slots |-> result.newSlots, group |-> result.newGroupIndices, remainingMovement |-> 0]

\* no collision in the remaining movement: move the full distance
FullDistance(workingSlots, currentGroup, remainingMovement, direction, n) ==
    LET result == applyGroupMove(currentGroup, direction, remainingMovement, workingSlots, n)
    IN  [slots |-> result.newSlots, group |-> result.newGroupIndices, remainingMovement |-> 0]

\* one iteration of while (remainingMovement > 0)
ChainStep(workingSlots, currentGroup, remainingMovement, direction, n) ==
    LET distanceToCollision == findDistanceToCollision(currentGroup, direction, workingSlots, n)
    IN  IF distanceToCollision > remainingMovement
        THEN FullDistance(workingSlots, currentGroup, remainingMovement, direction, n)
        ELSE LET moveDistance == IF distanceToCollision - 1 > 0 THEN distanceToCollision - 1 ELSE 0
                 touch == IF moveDistance > 0 THEN applyGroupMove(currentGroup, direction, moveDistance, workingSlots, n) ELSE [newSlots |-> workingSlots, newGroupIndices |-> currentGroup]
                 left == remainingMovement - moveDistance
             IN  IF left > 0
                 THEN LET merged == MergedGroup(touch.newGroupIndices, direction, touch.newSlots, n)
                          result == applyGroupMove(merged, direction, 1, touch.newSlots, n)
                      IN  [slots |-> result.newSlots, group |-> result.newGroupIndices, remainingMovement |-> left - 1]
                 ELSE [slots |-> touch.newSlots, group |-> touch.newGroupIndices, remainingMovement |-> left]

RECURSIVE ChainLoop(_, _, _, _, _)
ChainLoop(workingSlots, currentGroup, remainingMovement, direction, n) ==
    IF remainingMovement <= 0 THEN [slots |-> workingSlots, group |-> currentGroup, remainingMovement |-> remainingMovement]
    ELSE LET next == ChainStep(workingSlots, currentGroup, remainingMovement, direction, n)
         IN  ChainLoop(next.slots, next.group, next.remainingMovement, direction, n)

\* variant: the selection after a move is the moved group as it is
ReselectMovedOnly(movedGroup, newSlots, n) == Group(movedGroup)

\* the selection after a move: the connected group of any member of the moved group
Reselect(movedGroup, newSlots, n) == IF movedGroup = {} THEN Group(movedGroup) ELSE Group(findConnectedGroup(CHOOSE i \in movedGroup : TRUE, newSlots, n))

\* moveGroup up to its effect pass: the slots it sets and the selection it sets
moveGroup(group, direction, currentSlots, amount, n) ==
    IF areAllSlotsFilled(currentSlots)
    THEN LET result == applyGroupMove(Indices(n), direction, amount, currentSlots, n)
         IN  [slots |-> result.newSlots, selection |-> Reselect({MovedIndex(i, direction, amount, n) : i \in group}, result.newSlots, n)]
    ELSE LET chain == ChainLoop(currentSlots, group, amount, direction, n)
         IN  [slots |-> chain.slots, selection |-> Reselect(chain.group, chain.slots, n)]

---------------------------------------------------------------------------
(* Effect resolver *)

\* value ?? 1
TileValue(tile) == IF tile.value = Undefined THEN 1 ELSE tile.value

\* direction ?? 'right'
TileDirection(tile) == IF tile.direction = "undefined" THEN "right" ELSE tile.direction

\* current[k] ?? 0
Get(f, k) == IF k \in DOMAIN f THEN f[k] ELSE 0

\* { ...current, [k]: v }
Put(f, k, v) == IF k \in DOMAIN f THEN [f EXCEPT ![k] = v] ELSE (k :> v) @@ f

\* variant: a conversion is never refused
CanConvertAlways(currentResources, conversionRate) == TRUE

\* variant: a conversion needs more resources than the tile's value
CanConvertStrict(currentResources, conversionRate) == currentResources > conversionRate

\* if (currentResources >= conversionRate)
CanConvert(currentResources, conversionRate) == currentResources >= conversionRate

MovementDeltaRight(tile) == TileValue(tile)

\* the signed step of a Movement tile
MovementDelta(tile) == IF TileDirection(tile) = "left" THEN 0 - TileValue(tile) ELSE TileValue(tile)

\* One player's effect.  acc holds the queued functional updates applied so far;
\* closureResources is playerResources as the handler's render saw it.
ApplyEffect(acc, p, tile, closureResources, n) ==
    CASE tile.typeId = "resource" ->
            [acc EXCEPT !.res = Put(@, p, Get(@, p) + TileValue(tile))]
      [] tile.typeId = "victory" ->
            IF CanConvert(Get(closureResources, p), TileValue(tile))
            THEN [acc EXCEPT !.res = Put(@, p, Get(@, p) - TileValue(tile)), !.vp = Put(@, p, Get(@, p) + TileValue(tile))]
            ELSE acc
      [] tile.typeId = "movement" ->
            [acc EXCEPT !.players[p] = JsRem(@ + MovementDelta(tile) + n, n)]
      [] tile.typeId = "transfer" ->
            IF tile.ownerId # Undefined /\ tile.ownerId # p /\ Get(closureResources, p) > 0
            THEN [acc EXCEPT !.res = Put(Put(@, p, 0), tile.ownerId, Get(@, tile.ownerId) + Get(closureResources, p))]
            ELSE acc
      [] tile.typeId = "skip" ->
            IF tile.ownerId # Undefined THEN [acc EXCEPT !.cur = tile.ownerId] ELSE acc
      [] OTHER -> acc

RECURSIVE EffectLoop(_, _, _, _, _, _)
EffectLoop(p, acc, currentSlots, closurePlayers, closureResources, n) ==
    IF p \notin DOMAIN closurePlayers THEN acc
    ELSE LET slotIndex == closurePlayers[p]
             hasTile == slotIndex \in DOMAIN currentSlots /\ currentSlots[slotIndex].filled /\ currentSlots[slotIndex].tile # NoTile
             next == IF hasTile THEN ApplyEffect(acc, p, currentSlots[slotIndex].tile, closureResources, n) ELSE acc
         IN  EffectLoop(p + 1, next, currentSlots, closurePlayers, closureResources, n)

RECURSIVE EffectLoopDown(_, _, _, _, _, _)
EffectLoopDown(p, acc, currentSlots, closurePlayers, closureResources, n) ==
    IF p \notin DOMAIN closurePlayers THEN acc
    ELSE LET slotIndex == closurePlayers[p]
             hasTile == slotIndex \in DOMAIN currentSlots /\ currentSlots[slotIndex].filled /\ currentSlots[slotIndex].tile # NoTile
             next == IF hasTile THEN ApplyEffect(acc, p, currentSlots[slotIndex].tile, closureResources, n) ELSE acc
         IN  EffectLoopDown(p - 1, next, currentSlots, closurePlayers, closureResources, n)

\* variant: the pass visits the players from the highest id down
triggerTileEffectsDescending(currentSlots, closurePlayers, closureResources, closureVictory, closureCurrent, n) ==
    EffectLoopDown(Cardinality(DOMAIN closurePlayers) - 1, [players |-> closurePlayers, res |-> closureResources, vp |-> closureVictory, cur |-> closureCurrent], currentSlots, closurePlayers, closureResources, n)

\* variant: the pass runs a second time over the result of the first
triggerTileEffectsTwice(currentSlots, closurePlayers, closureResources, closureVictory, closureCurrent, n) ==
    EffectLoop(0, EffectLoop(0, [players |-> closurePlayers, res |-> closureResources, vp |-> closureVictory, cur |-> closureCurrent], currentSlots, closurePlayers, closureResources, n), currentSlots, closurePlayers, closureResources, n)

\* players.forEach(...) over the slots a move produced
triggerTileEffects(currentSlots, closurePlayers, closureResources, closureVictory, closureCurrent, n) ==
    EffectLoop(0, [players |-> closurePlayers, res |-> closureResources, vp |-> closureVictory, cur |-> closureCurrent], currentSlots, closurePlayers, closureResources, n)

---------------------------------------------------------------------------
(* Snapshots and history *)

PlayerCount == Cardinality(DOMAIN players)

Snapshot(pc, n, sl, cur, res, vp, rp) == [playerCount |-> pc, slotCount |-> n, slots |-> sl, currentPlayerIndex |-> cur, playerResources |-> res, playerVictoryPoints |-> vp, playerRotationPoints |-> rp]

\* only called while playing
getCurrentState == Snapshot(PlayerCount, slotCount, slots, currentPlayerIndex, playerResources, playerVictoryPoints, playerRotationPoints)

\* the whole program state, kept as the history variable prev
Now == [gamePhase |-> gamePhase, slotCount |-> slotCount, players |-> players, slots |-> slots, selectedTile |-> selectedTile, selectedGroup |-> selectedGroup, currentPlayerIndex |-> currentPlayerIndex, hasRotatedThisTurn |-> hasRotatedThisTurn, hasPlacedTileThisTurn |-> hasPlacedTileThisTurn, playerResources |-> playerResources, playerVictoryPoints |-> playerVictoryPoints, playerRotationPoints |-> playerRotationPoints, actionUndoStack |-> actionUndoStack, actionRedoStack |-> actionRedoStack, currentTurnStartState |-> currentTurnStartState, turnUndoStack |-> turnUndoStack, turnRedoStack |-> turnRedoStack, saves |-> saves]

NoOp == [op |-> "none", slot |-> Undefined, direction |-> "undefined", amount |-> 0]

Op(name, slot, direction, amount) == [op |-> name, slot |-> slot, direction |-> direction, amount |-> amount]

\* what a turn's start fixes: the ring, the counters and whose turn it is
TurnFrame == [slots |-> slots, playerResources |-> playerResources, playerVictoryPoints |-> playerVictoryPoints, playerRotationPoints |-> playerRotationPoints, currentPlayerIndex |-> currentPlayerIndex]

\* the bookkeeping every handler shares.  A turn begins when a game starts,
\* when a turn ends and when the game goes back to an earlier turn; a turn
\* redo right after prevTurn enters the later turn again, one right after
\* restartTurn stays in the turn, and after any other the start is not known.
Ran(op) ==
    /\ steps' = steps + 1
    /\ last' = op
    /\ prev' = Now
    /\ last2' = last
    /\ prev2' = prev
    /\ found' = found
    /\ turnStart' = IF op.op \in {"startGame", "endTurn", "prevTurn"} \/ (op.op = "turnRedo" /\ last.op = "prevTurn") THEN <<TurnFrame'>>
                    ELSE IF op.op \in {"newGame", "load"} \/ (op.op = "turnRedo" /\ last.op # "restartTurn") THEN <<>>
                    ELSE turnStart

\* variant: nothing is pushed before an action is committed
saveToActionUndoStackSkipped ==
    /\ actionUndoStack' = actionUndoStack
    /\ actionRedoStack' = <<>>

\* saveToActionUndoStack, while playing
saveToActionUndoStack ==
    /\ actionUndoStack' = Append(actionUndoStack, getCurrentState)
    /\ actionRedoStack' = <<>>

\* handleLoadSave: what it sets (it leaves the selection and every stack alone)
handleLoadSave(savedState) ==
    /\ slotCount' = savedState.slotCount
    /\ players' = createPlayers(savedState.playerCount, savedState.slotCount)
    /\ slots' = savedState.slots
    /\ currentPlayerIndex' = savedState.currentPlayerIndex
    /\ hasRotatedThisTurn' = FALSE
    /\ hasPlacedTileThisTurn' = FALSE
    /\ selectedTile' = NoTile
    /\ playerResources' = savedState.playerResources
    /\ playerVictoryPoints' = savedState.playerVictoryPoints
    /\ playerRotationPoints' = savedState.playerRotationPoints
    /\ gamePhase' = "playing"

---------------------------------------------------------------------------
(* Program constants *)

\* createInitialSlots(16) of a board that restores nothing
DefaultSlotCount == 16
\* every player starts with 3 rotation points
InitialRotationPoints == 3
\* the move control clamps the amount to 1..12
AmountCap == 12
\* the setup screen's ring sizes
MinTileCount == 12
MaxTileCount == 24
\* the largest value of a Movement tile
MaxMovementValue == 4

\* the amounts the move control can issue on a ring of n slots: the control's
\* range is 1..12 and the setup screen's rings have 12..24 slots, so an amount
\* never exceeds the ring; the bound scales the range down with the ring
Amounts(cap, n) == 1 .. Min({cap, n, AmountCap})

Directions == {"clockwise", "counterclockwise"}

ZeroCounters(pc) == [i \in Indices(pc) |-> 0]

StartRotationPoints(pc) == [i \in Indices(pc) |-> InitialRotationPoints]

---------------------------------------------------------------------------
(* Handlers *)

\* GameSetup -> handleStartGame; initialSlots is the board the chosen fill produced
handleStartGame(playerCount, tileCount, initialSlots) ==
    /\ gamePhase = "setup"
    /\ slotCount' = tileCount
    /\ players' = createPlayers(playerCount, tileCount)
    /\ slots' = initialSlots
    /\ selectedTile' = NoTile
    /\ selectedGroup' = NullGroup
    /\ currentPlayerIndex' = 0
    /\ hasRotatedThisTurn' = FALSE
    /\ hasPlacedTileThisTurn' = FALSE
    /\ playerResources' = ZeroCounters(playerCount)
    /\ playerVictoryPoints' = ZeroCounters(playerCount)
    /\ playerRotationPoints' = StartRotationPoints(playerCount)
    /\ actionUndoStack' = <<>>
    /\ actionRedoStack' = <<>>
    /\ turnUndoStack' = <<>>
    /\ turnRedoStack' = <<>>
    /\ currentTurnStartState' = <<Snapshot(playerCount, tileCount, initialSlots, 0, ZeroCounters(playerCount), ZeroCounters(playerCount), StartRotationPoints(playerCount))>>
    /\ gamePhase' = "playing"
    /\ nextTileId' = tileCount
    /\ UNCHANGED saves
    /\ Ran(Op("startGame", Undefined, "undefined", 0))

handleNewGame ==
    /\ gamePhase = "playing"
    /\ gamePhase' = "setup"
    /\ players' = <<>>
    /\ selectedTile' = NoTile
    /\ selectedGroup' = NullGroup
    /\ currentPlayerIndex' = 0
    /\ hasRotatedThisTurn' = FALSE
    /\ hasPlacedTileThisTurn' = FALSE
    /\ playerResources' = <<>>
    /\ playerVictoryPoints' = <<>>
    /\ playerRotationPoints' = <<>>
    /\ UNCHANGED <<slotCount, slots, actionUndoStack, actionRedoStack, currentTurnStartState, turnUndoStack, turnRedoStack, nextTileId, saves>>
    /\ Ran(Op("newGame", Undefined, "undefined", 0))

\* TilePalette.handleSelectTile: drops the group selection, takes a fresh tile in hand
handleSelectTile(typeId, value, ownerId, direction) ==
    /\ gamePhase = "playing"
    /\ selectedGroup' = NullGroup
    /\ selectedTile' = MkTile(nextTileId, typeId, value, ownerId, direction)
    /\ nextTileId' = nextTileId + 1
    /\ UNCHANGED <<gamePhase, slotCount, players, slots, currentPlayerIndex, hasRotatedThisTurn, hasPlacedTileThisTurn, playerResources, playerVictoryPoints, playerRotationPoints, actionUndoStack, actionRedoStack, currentTurnStartState, turnUndoStack, turnRedoStack, saves>>
    /\ Ran(Op("selectTile", Undefined, "undefined", 0))

\* the board's own onClick: a click beside the ring drops both selections
handleBoardClick ==
    /\ gamePhase = "playing"
    /\ selectedGroup' = NullGroup
    /\ selectedTile' = NoTile
    /\ UNCHANGED <<gamePhase, slotCount, players, slots, currentPlayerIndex, hasRotatedThisTurn, hasPlacedTileThisTurn, playerResources, playerVictoryPoints, playerRotationPoints, actionUndoStack, actionRedoStack, currentTurnStartState, turnUndoStack, turnRedoStack, nextTileId, saves>>
    /\ Ran(Op("boardClick", Undefined, "undefined", 0))

\* variant: a placement resolves the tile effects of the new ring
handleSlotClickWithEffects(slotIndex) ==
    /\ gamePhase = "playing"
    /\ slotIndex \in DOMAIN slots
    /\ selectedTile # NoTile
    /\ saveToActionUndoStack
    /\ \E placed \in {[slots EXCEPT ![slotIndex] = [filled |-> TRUE, tile |-> selectedTile]]} :
       \E effects \in {triggerTileEffects(placed, players, playerResources, playerVictoryPoints, currentPlayerIndex, slotCount)} :
           /\ slots' = placed
           /\ players' = effects.players
           /\ playerResources' = effects.res
           /\ playerVictoryPoints' = effects.vp
           /\ currentPlayerIndex' = effects.cur
    /\ selectedTile' = NoTile
    /\ hasPlacedTileThisTurn' = TRUE
    /\ UNCHANGED <<gamePhase, slotCount, selectedGroup, hasRotatedThisTurn, playerRotationPoints, currentTurnStartState, turnUndoStack, turnRedoStack, nextTileId, saves>>
    /\ Ran(Op("place", slotIndex, "undefined", 0))

\* Ring's slot click (an empty slot, or the replace overlay of a filled one)
\* -> handleSlotClick, which returns at once with no tile in hand
handleSlotClick(slotIndex) ==
    /\ gamePhase = "playing"
    /\ slotIndex \in DOMAIN slots
    /\ selectedTile # NoTile
    /\ saveToActionUndoStack
    /\ slots' = [slots EXCEPT ![slotIndex] = [filled |-> TRUE, tile |-> selectedTile]]
    /\ selectedTile' = NoTile
    /\ hasPlacedTileThisTurn' = TRUE
    /\ UNCHANGED <<gamePhase, slotCount, players, selectedGroup, currentPlayerIndex, hasRotatedThisTurn, playerResources, playerVictoryPoints, playerRotationPoints, currentTurnStartState, turnUndoStack, turnRedoStack, nextTileId, saves>>
    /\ Ran(Op("place", slotIndex, "undefined", 0))

\* a click on a drawn tile -> handleSelectGroup; with a tile in hand the replace
\* overlay lies over every filled slot and takes the click instead
handleSelectGroup(slotIndex) ==
    /\ gamePhase = "playing"
    /\ slotIndex \in DOMAIN slots
    /\ selectedTile = NoTile
    /\ slots[slotIndex].filled
    /\ slots[slotIndex].tile # NoTile
    /\ selectedGroup' = Group(findConnectedGroup(slotIndex, slots, slotCount))
    /\ UNCHANGED <<gamePhase, slotCount, players, slots, selectedTile, currentPlayerIndex, hasRotatedThisTurn, hasPlacedTileThisTurn, playerResources, playerVictoryPoints, playerRotationPoints, actionUndoStack, actionRedoStack, currentTurnStartState, turnUndoStack, turnRedoStack, nextTileId, saves>>
    /\ Ran(Op("select", slotIndex, "undefined", 0))

\* ActionPanel's canRotate
canRotate == ~selectedGroup.isNull \/ areAllSlotsFilled(slots)

\* the group handleRotate moves: the selection, else the whole of a full ring
RotatedGroup == IF ~selectedGroup.isNull THEN selectedGroup.members ELSE Indices(slotCount)

\* ActionPanel.handleMove -> handleRotate -> moveGroup -> triggerTileEffects
handleRotate(direction, amount) ==
    /\ gamePhase = "playing"
    /\ canRotate
    /\ saveToActionUndoStack
    /\ \E moved \in {moveGroup(RotatedGroup, direction, slots, amount, slotCount)} :
       \E effects \in {triggerTileEffects(moved.slots, players, playerResources, playerVictoryPoints, currentPlayerIndex, slotCount)} :
           /\ slots' = moved.slots
           /\ selectedGroup' = moved.selection
           /\ players' = effects.players
           /\ playerResources' = effects.res
           /\ playerVictoryPoints' = effects.vp
           /\ currentPlayerIndex' = effects.cur
    /\ hasRotatedThisTurn' = TRUE
    /\ UNCHANGED <<gamePhase, slotCount, selectedTile, hasPlacedTileThisTurn, playerRotationPoints, currentTurnStartState, turnUndoStack, turnRedoStack, nextTileId, saves>>
    /\ Ran(Op("move", Undefined, direction, amount))

handleEndTurn ==
    /\ gamePhase = "playing"
    /\ PlayerCount > 0
    /\ LET nextPlayerIndex == (currentPlayerIndex + 1) % PlayerCount
       IN  /\ turnUndoStack' = IF currentTurnStartState # <<>> THEN Append(turnUndoStack, currentTurnStartState[1]) ELSE turnUndoStack
           /\ currentTurnStartState' = <<Snapshot(PlayerCount, slotCount, slots, nextPlayerIndex, playerResources, playerVictoryPoints, playerRotationPoints)>>
           /\ currentPlayerIndex' = nextPlayerIndex
    /\ hasRotatedThisTurn' = FALSE
    /\ hasPlacedTileThisTurn' = FALSE
    /\ selectedTile' = NoTile
    /\ selectedGroup' = NullGroup
    /\ actionUndoStack' = <<>>
    /\ actionRedoStack' = <<>>
    /\ turnRedoStack' = <<>>
    /\ UNCHANGED <<gamePhase, slotCount, players, slots, playerResources, playerVictoryPoints, playerRotationPoints, nextTileId, saves>>
    /\ Ran(Op("endTurn", Undefined, "undefined", 0))

Top(stack) == stack[Len(stack)]

Pop(stack) == SubSeq(stack, 1, Len(stack) - 1)

handleActionUndo ==
    /\ gamePhase = "playing"
    /\ Len(actionUndoStack) > 0
    /\ actionRedoStack' = Append(actionRedoStack, getCurrentState)
    /\ actionUndoStack' = Pop(actionUndoStack)
    /\ handleLoadSave(Top(actionUndoStack))
    /\ UNCHANGED <<selectedGroup, currentTurnStartState, turnUndoStack, turnRedoStack, nextTileId, saves>>
    /\ Ran(Op("undoAction", Undefined, "undefined", 0))

handleActionRedo ==
    /\ gamePhase = "playing"
    /\ Len(actionRedoStack) > 0
    /\ actionUndoStack' = Append(actionUndoStack, getCurrentState)
    /\ actionRedoStack' = Pop(actionRedoStack)
    /\ handleLoadSave(Top(actionRedoStack))
    /\ UNCHANGED <<selectedGroup, currentTurnStartState, turnUndoStack, turnRedoStack, nextTileId, saves>>
    /\ Ran(Op("redoAction", Undefined, "undefined", 0))

\* what the turn-undo control does: 'restart' | 'prev' | 'disabled'
turnUndoMode == IF Len(actionUndoStack) > 0 THEN "restart" ELSE IF Len(turnUndoStack) > 0 THEN "prev" ELSE "disabled"

\* handleTurnUndo, restart branch
handleRestartTurn ==
    /\ gamePhase = "playing"
    /\ turnUndoMode = "restart"
    /\ currentTurnStartState # <<>>
    /\ turnRedoStack' = Append(turnRedoStack, getCurrentState)
    /\ handleLoadSave(currentTurnStartState[1])
    /\ actionUndoStack' = <<>>
    /\ actionRedoStack' = <<>>
    /\ UNCHANGED <<selectedGroup, currentTurnStartState, turnUndoStack, nextTileId, saves>>
    /\ Ran(Op("restartTurn", Undefined, "undefined", 0))

\* handleTurnUndo, previous-turn branch
handlePrevTurn ==
    /\ gamePhase = "playing"
    /\ turnUndoMode = "prev"
    /\ Len(turnUndoStack) > 0
    /\ turnRedoStack' = Append(turnRedoStack, getCurrentState)
    /\ turnUndoStack' = Pop(turnUndoStack)
    /\ currentTurnStartState' = <<Top(turnUndoStack)>>
    /\ handleLoadSave(Top(turnUndoStack))
    /\ actionUndoStack' = <<>>
    /\ actionRedoStack' = <<>>
    /\ UNCHANGED <<selectedGroup, nextTileId, saves>>
    /\ Ran(Op("prevTurn", Undefined, "undefined", 0))

handleTurnUndo == handleRestartTurn \/ handlePrevTurn

handleTurnRedo ==
    /\ gamePhase = "playing"
    /\ Len(turnRedoStack) > 0
    /\ turnUndoStack' = IF currentTurnStartState # <<>> THEN Append(turnUndoStack, currentTurnStartState[1]) ELSE turnUndoStack
    /\ turnRedoStack' = Pop(turnRedoStack)
    /\ currentTurnStartState' = <<Top(turnRedoStack)>>
    /\ handleLoadSave(Top(turnRedoStack))
    /\ actionUndoStack' = <<>>
    /\ actionRedoStack' = <<>>
    /\ UNCHANGED <<selectedGroup, nextTileId, saves>>
    /\ Ran(Op("turnRedo", Undefined, "undefined", 0))

---------------------------------------------------------------------------
(* Construction: getInitialState and the Board's state initialisers *)

\* nothing to restore: the setup screen
InitSetup ==
    /\ gamePhase = "setup"
    /\ slotCount = DefaultSlotCount
    /\ players = <<>>
    /\ slots = createInitialSlots(DefaultSlotCount)
    /\ currentPlayerIndex = 0
    /\ playerResources = <<>>
    /\ playerVictoryPoints = <<>>
    /\ playerRotationPoints = <<>>
    /\ nextTileId = DefaultSlotCount

\* a playing game restored from the persisted snapshot
InitRestored(savedState) ==
    /\ gamePhase = "playing"
    /\ slotCount = savedState.slotCount
    /\ players = createPlayers(savedState.playerCount, savedState.slotCount)
    /\ slots = savedState.slots
    /\ currentPlayerIndex = savedState.currentPlayerIndex
    /\ playerResources = ZeroCounters(savedState.playerCount)
    /\ playerVictoryPoints = ZeroCounters(savedState.playerCount)
    /\ playerRotationPoints = StartRotationPoints(savedState.playerCount)
    /\ nextTileId = savedState.slotCount

\* the state initialisers that do not depend on what was restored
InitRest ==
    /\ selectedTile = NoTile
    /\ selectedGroup = NullGroup
    /\ hasRotatedThisTurn = FALSE
    /\ hasPlacedTileThisTurn = FALSE
    /\ actionUndoStack = <<>>
    /\ actionRedoStack = <<>>
    /\ currentTurnStartState = <<>>
    /\ turnUndoStack = <<>>
    /\ turnRedoStack = <<>>
    /\ turnStart = <<>>
    /\ steps = 0
    /\ last = NoOp
    /\ prev = Now
    /\ last2 = NoOp
    /\ prev2 = prev

---------------------------------------------------------------------------
(* Persistence: the snapshot as it lies in localStorage.  A stored snapshot *)
(* carries, next to the state, the JavaScript type of its version and of    *)
(* each slot's id and filled field (the state's filled is then the field's  *)
(* truthiness), and its slots array can be of any length.                   *)

StoredSnapshot(versionType, idType, filledType, state) == [versionType |-> versionType, gamePhase |-> "playing", idType |-> idType, filledType |-> filledType, state |-> state]

\* a snapshot as saveGameState and SaveManager.handleSave write it
Stored(state) == StoredSnapshot("number", [i \in DOMAIN state.slots |-> "number"], [i \in DOMAIN state.slots |-> "boolean"], state)

\* loadGameState: <<>> (null) for nothing stored and for what fails the checks
loadGameState(stored) ==
    IF stored = <<>> THEN <<>>
    ELSE LET state == stored[1]
         IN  IF \/ state.versionType # "number"
                \/ Cardinality(DOMAIN state.state.slots) # state.state.slotCount
                \/ \E i \in DOMAIN state.state.slots : state.idType[i] # "number" \/ state.filledType[i] # "boolean"
             THEN <<>>
             ELSE <<state>>

\* getInitialState
getInitialState(stored) ==
    LET savedState == loadGameState(stored)
    IN  IF savedState # <<>> /\ savedState[1].gamePhase = "playing" THEN InitRestored(savedState[1].state) ELSE InitSetup

\* SaveManager.handleSave, with a name typed in
handleSave ==
    /\ gamePhase = "playing"
    /\ saves' = Append(saves, Stored(getCurrentState))
    /\ UNCHANGED <<gamePhase, slotCount, players, slots, selectedTile, selectedGroup, currentPlayerIndex, hasRotatedThisTurn, hasPlacedTileThisTurn, playerResources, playerVictoryPoints, playerRotationPoints, actionUndoStack, actionRedoStack, currentTurnStartState, turnUndoStack, turnRedoStack, nextTileId>>
    /\ Ran(Op("save", Undefined, "undefined", 0))

\* SaveManager.handleLoad -> handleLoadSave(save.state)
handleLoad(index) ==
    /\ gamePhase = "playing"
    /\ index \in DOMAIN saves
    /\ handleLoadSave(saves[index].state)
    /\ UNCHANGED <<selectedGroup, actionUndoStack, actionRedoStack, currentTurnStartState, turnUndoStack, turnRedoStack, nextTileId, saves>>
    /\ Ran(Op("load", index, "undefined", 0))

---------------------------------------------------------------------------
(* The movement specification: one move on any ring the players can have    *)
(* built.  The ring holds blank tiles, each with the id of the slot it      *)
(* starts in; the selection is none or any run of adjacent slots (a         *)
(* selection is always the connected group of some earlier ring, which the  *)
(* undo and redo controls do not refresh, so it need not match the ring).   *)
(* Blank tiles have no effect, so a move does not depend on where the ring  *)
(* is cut: the runs drawn are the ones that start at slot 0, over every     *)
(* pattern of filled and empty slots around them.                           *)

Arc(start, len, n) == {(start + k) % n : k \in 0 .. (len - 1)}

Arcs(n) == {Arc(0, len, n) : len \in 1 .. n}

BlankTile(id) == MkTile(id, "blank", Undefined, Undefined, "undefined")

BlankRing(filled, n) == [i \in Indices(n) |-> IF i \in filled THEN FilledSlot(BlankTile(i)) ELSE EmptySlot]

\* the state in which a turn starts on the given ring
InitTurnStart(pc, n, ring, res) ==
    /\ gamePhase = "playing"
    /\ slotCount = n
    /\ players = createPlayers(pc, n)
    /\ slots = ring
    /\ currentPlayerIndex = 0
    /\ playerResources = res
    /\ playerVictoryPoints = ZeroCounters(pc)
    /\ playerRotationPoints = StartRotationPoints(pc)
    /\ selectedTile = NoTile
    /\ hasRotatedThisTurn = FALSE
    /\ hasPlacedTileThisTurn = FALSE
    /\ actionUndoStack = <<>>
    /\ actionRedoStack = <<>>
    /\ currentTurnStartState = <<Snapshot(pc, n, ring, 0, res, ZeroCounters(pc), StartRotationPoints(pc))>>
    /\ turnUndoStack = <<>>
    /\ turnRedoStack = <<>>
    /\ nextTileId = n
    /\ saves = <<>>
    /\ found = <<>>
    /\ turnStart = <<[slots |-> ring, playerResources |-> res, playerVictoryPoints |-> ZeroCounters(pc), playerRotationPoints |-> StartRotationPoints(pc), currentPlayerIndex |-> 0]>>
    /\ steps = 0
    /\ last = NoOp
    /\ last2 = NoOp

InitMove ==
    /\ \E n \in 2 .. MaxRing : \E filled \in SUBSET Indices(n) : InitTurnStart(2, n, BlankRing(filled, n), ZeroCounters(2))
    /\ selectedGroup \in {NullGroup} \cup {Group(a) : a \in Arcs(slotCount)}
    /\ prev = Now
    /\ prev2 = prev

NextMove == steps < 1 /\ \E direction \in Directions : \E amount \in Amounts(MaxAmount, slotCount) : handleRotate(direction, amount)

SpecMove == InitMove /\ [][NextMove]_vars

---------------------------------------------------------------------------
(* Properties of a move *)

\* a slot that holds a tile
Occupied(slot) == slot.filled /\ slot.tile # NoTile

OccupiedSet(sl) == {i \in DOMAIN sl : Occupied(sl[i])}

\* how many slots of the ring hold the tile with this id
IdCount(sl, id) == Cardinality({i \in DOMAIN sl : sl[i].filled /\ sl[i].tile.id = id})

IdsOn(sl) == {sl[i].tile.id : i \in {j \in DOMAIN sl : sl[j].filled}}

FilledCount(sl) == Cardinality({i \in DOMAIN sl : sl[i].filled})

\* the group the last move was issued with
PrevGroup == IF ~prev.selectedGroup.isNull THEN prev.selectedGroup.members ELSE Indices(prev.slotCount)

MoveRan == last.op = "move"

\* C1: a move whose group is non-empty and holds only occupied slots leaves
\* the multiset of tile ids on the ring and the number of occupied slots
\* as they were.
C1_TileConservation ==
    (MoveRan /\ PrevGroup # {} /\ PrevGroup \subseteq OccupiedSet(prev.slots))
        => /\ \A id \in IdsOn(prev.slots) \cup IdsOn(slots) : IdCount(slots, id) = IdCount(prev.slots, id)
           /\ FilledCount(slots) = FilledCount(prev.slots)
           /\ Cardinality(OccupiedSet(slots)) = Cardinality(OccupiedSet(prev.slots))

\* a move of an occupied group that ran into another group and pushed it on
C1_Witness ==
    /\ MoveRan
    /\ PrevGroup # {}
    /\ PrevGroup \subseteq OccupiedSet(prev.slots)
    /\ ~areAllSlotsFilled(prev.slots)
    /\ ~selectedGroup.isNull
    /\ Cardinality(selectedGroup.members) > Cardinality(PrevGroup)
    /\ \E i \in OccupiedSet(prev.slots) \ PrevGroup : ~Occupied(slots[i])

\* the ring of the chain-collision scenario: 8 slots, T0 at 0, T1 at 1, T2 at 5
\* (a tile's id is the slot it started in), the group {0, 1} moved clockwise by 4
ChainScenario ==
    /\ MoveRan
    /\ last.direction = "clockwise"
    /\ last.amount = 4
    /\ prev.slotCount = 8
    /\ OccupiedSet(prev.slots) = {0, 1, 5}
    /\ prev.selectedGroup = Group({0, 1})

\* C2 as stated: the scenario ends with exactly the slots 3, 4, 5 occupied,
\* holding T0, T1, T2 in that order.
C2_AsStated ==
    ChainScenario => /\ OccupiedSet(slots) = {3, 4, 5}
                     /\ slots[3].tile.id = 0
                     /\ slots[4].tile.id = 1
                     /\ slots[5].tile.id = 5

\* C2: the scenario ends with exactly the slots 4, 5, 6 occupied, holding
\* T0, T1, T2 in that order: the group reaches T2 after 3 steps and the
\* fourth step moves all three tiles.
C2_ChainCollision ==
    ChainScenario => /\ OccupiedSet(slots) = {4, 5, 6}
                     /\ slots[4].tile.id = 0
                     /\ slots[5].tile.id = 1
                     /\ slots[6].tile.id = 5

C2_Witness == ChainScenario /\ selectedGroup = Group({4, 5, 6})

\* where a rigid rotation by k takes slot i
RigidTarget(i, direction, k, n) == IF direction = "clockwise" THEN (i + k) % n ELSE (i + n * k - k) % n

\* C3: on a ring whose every slot is occupied, a move with any selection or
\* none is the rigid rotation of the whole ring: the tile of slot i ends at
\* slot (i + k) mod N going clockwise and (i - k) mod N going counterclockwise.
C3_FullRingRotation ==
    (MoveRan /\ OccupiedSet(prev.slots) = Indices(prev.slotCount))
        => /\ DOMAIN slots = DOMAIN prev.slots
           /\ \A i \in Indices(prev.slotCount) : slots[RigidTarget(i, last.direction, last.amount, prev.slotCount)] = prev.slots[i]

\* a full ring moved counterclockwise with a selection that is part of it
C3_Witness ==
    /\ MoveRan
    /\ OccupiedSet(prev.slots) = Indices(prev.slotCount)
    /\ ~prev.selectedGroup.isNull
    /\ prev.selectedGroup.members # Indices(prev.slotCount)
    /\ last.direction = "counterclockwise"
    /\ last.amount % prev.slotCount # 0
    /\ slots # prev.slots

\* a full ring moved with nothing selected
C3_WitnessNoSelection ==
    /\ MoveRan
    /\ OccupiedSet(prev.slots) = Indices(prev.slotCount)
    /\ prev.selectedGroup.isNull
    /\ slots # prev.slots

---------------------------------------------------------------------------
(* The effect specification: one move of a full ring of effect tiles under  *)
(* two players whose resources are whatever earlier passes left them.       *)

TileValues == 1 .. MaxRes

EffectKinds(pc) ==
    {[typeId |-> "blank", value |-> Undefined, ownerId |-> Undefined]}
        \cup {[typeId |-> t, value |-> v, ownerId |-> Undefined] : t \in {"resource", "victory"}, v \in TileValues}
        \cup {[typeId |-> "transfer", value |-> Undefined, ownerId |-> o] : o \in Indices(pc)}

EffectSlots(ring) == [i \in DOMAIN ring |-> FilledSlot(MkTile(i, ring[i].typeId, ring[i].value, ring[i].ownerId, "undefined"))]

InitEffects ==
    /\ \E ring \in [Indices(EffectRing) -> EffectKinds(2)] : \E res \in [Indices(2) -> 0 .. MaxRes] : InitTurnStart(2, EffectRing, EffectSlots(ring), res)
    /\ selectedGroup = NullGroup
    /\ prev = Now
    /\ prev2 = prev

NextEffects == steps < 1 /\ \E direction \in Directions : \E amount \in Amounts(MaxAmount, slotCount) : handleRotate(direction, amount)

SpecEffects == InitEffects /\ [][NextEffects]_vars

---------------------------------------------------------------------------
(* Properties of an effect pass *)

RECURSIVE Sum(_, _)
Sum(f, S) == IF S = {} THEN 0 ELSE LET x == CHOOSE y \in S : TRUE IN f[x] + Sum(f, S \ {x})

PlayerIds == DOMAIN prev.players

\* the tile player q stood at when the pass of the last move ran
AlignedTile(q) == IF prev.players[q] \in DOMAIN slots /\ Occupied(slots[prev.players[q]]) THEN slots[prev.players[q]].tile ELSE NoTile

\* what player q's tile adds to player p's resources, read off the counters
\* as they were when the pass started
ResourceDelta(q, p) ==
    LET tile == AlignedTile(q)
        had == prev.playerResources[q]
    IN  CASE tile.typeId = "resource" -> IF p = q THEN TileValue(tile) ELSE 0
          [] tile.typeId = "victory" -> IF p = q /\ had >= TileValue(tile) THEN 0 - TileValue(tile) ELSE 0
          [] tile.typeId = "transfer" ->
                IF tile.ownerId # Undefined /\ tile.ownerId # q /\ had > 0
                THEN (IF p = q THEN 0 - had ELSE 0) + (IF p = tile.ownerId THEN had ELSE 0)
                ELSE 0
          [] OTHER -> 0

VictoryDelta(q, p) ==
    LET tile == AlignedTile(q)
    IN  IF tile.typeId = "victory" /\ p = q /\ prev.playerResources[q] >= TileValue(tile) THEN TileValue(tile) ELSE 0

\* C9 as stated: after a pass the counters are the counters of its start plus
\* every player's delta, each delta computed against the counters of its start.
C9_Simultaneous ==
    MoveRan => \A p \in PlayerIds :
                  /\ playerResources[p] = prev.playerResources[p] + Sum([q \in PlayerIds |-> ResourceDelta(q, p)], PlayerIds)
                  /\ playerVictoryPoints[p] = prev.playerVictoryPoints[p] + Sum([q \in PlayerIds |-> VictoryDelta(q, p)], PlayerIds)

\* what the other players' Transfer tiles hand to player p in the pass
Incoming(p) == Sum([q \in PlayerIds |-> IF q # p /\ AlignedTile(q).typeId = "transfer" THEN ResourceDelta(q, p) ELSE 0], PlayerIds)

\* C10: a player aligned with a Victory tile of value v converts (resources
\* down by v, victory points up by v) when the resources at the start of the
\* pass are at least v, exactly v included, and keeps both counters when they
\* are v - 1 or less; resources handed over by another player's Transfer
\* tile in the same pass come on top in both cases.
C10_VictoryBoundary ==
    MoveRan => \A p \in PlayerIds :
                  AlignedTile(p).typeId = "victory" =>
                      LET v == TileValue(AlignedTile(p))
                      IN  IF prev.playerResources[p] >= v
                          THEN /\ playerResources[p] = prev.playerResources[p] - v + Incoming(p)
                               /\ playerVictoryPoints[p] = prev.playerVictoryPoints[p] + v
                          ELSE /\ playerResources[p] = prev.playerResources[p] + Incoming(p)
                               /\ playerVictoryPoints[p] = prev.playerVictoryPoints[p]

\* one player converts with exactly v resources and is left with none, while
\* another, one resource short of the tile's value, keeps what it has
C10_Witness ==
    /\ MoveRan
    /\ \E p \in PlayerIds : \E q \in PlayerIds :
          /\ AlignedTile(p).typeId = "victory"
          /\ TileValue(AlignedTile(p)) > 1
          /\ prev.playerResources[p] = TileValue(AlignedTile(p))
          /\ playerResources[p] = 0
          /\ playerVictoryPoints[p] = TileValue(AlignedTile(p))
          /\ AlignedTile(q).typeId = "victory"
          /\ prev.playerResources[q] = TileValue(AlignedTile(q)) - 1
          /\ prev.playerResources[q] > 0
          /\ playerResources[q] = prev.playerResources[q]
          /\ playerVictoryPoints[q] = 0

---------------------------------------------------------------------------
(* The session specification: a game from the construction of the board,    *)
(* through every control a player can use, on a small ring with two players *)

\* the boards a game starts on: empty, filled with blanks, or a generated
\* board, here one Movement tile next to the first player
GeneratedRing(n) == [i \in Indices(n) |-> IF i = 1 THEN FilledSlot(MkTile(i, "movement", 1, Undefined, "right")) ELSE EmptySlot]

StartBoards(n) == {createInitialSlots(n), BlankRing(Indices(n), n), GeneratedRing(n)}

\* the tiles taken from the palette: its Resource and Movement options as they come up
Palette == {[typeId |-> "resource", value |-> 1, ownerId |-> Undefined, direction |-> "undefined"], [typeId |-> "movement", value |-> 1, ownerId |-> Undefined, direction |-> "right"]}

\* the snapshots a session can find persisted when the board is constructed
PersistedStates == {Snapshot(2, SessionRing, board, 0, ZeroCounters(2), ZeroCounters(2), StartRotationPoints(2)) : board \in StartBoards(SessionRing)}

Init ==
    /\ \/ InitSetup /\ found = <<>>
       \/ \E savedState \in PersistedStates : InitRestored(savedState) /\ found = <<Stored(savedState)>>
    /\ saves = <<>>
    /\ InitRest

Next ==
    /\ steps < MaxSteps
    /\ \/ \E initialSlots \in StartBoards(SessionRing) : handleStartGame(2, SessionRing, initialSlots)
       \/ handleNewGame
       \/ \E tile \in Palette : handleSelectTile(tile.typeId, tile.value, tile.ownerId, tile.direction)
       \/ handleBoardClick
       \/ \E slotIndex \in Indices(slotCount) : handleSlotClick(slotIndex)
       \/ \E slotIndex \in Indices(slotCount) : handleSelectGroup(slotIndex)
       \/ \E direction \in Directions : \E amount \in Amounts(MaxAmount, slotCount) : handleRotate(direction, amount)
       \/ handleEndTurn
       \/ handleActionUndo
       \/ handleActionRedo
       \/ handleTurnUndo
       \/ handleTurnRedo

Spec == Init /\ [][Next]_vars

---------------------------------------------------------------------------
(* Properties of a session *)

PlaceRan == last.op = "place"

\* everything of the game but the ring and the action history
RestUnchanged ==
    /\ players = prev.players
    /\ currentPlayerIndex = prev.currentPlayerIndex
    /\ playerResources = prev.playerResources
    /\ playerVictoryPoints = prev.playerVictoryPoints
    /\ playerRotationPoints = prev.playerRotationPoints
    /\ slotCount = prev.slotCount
    /\ currentTurnStartState = prev.currentTurnStartState
    /\ turnUndoStack = prev.turnUndoStack
    /\ turnRedoStack = prev.turnRedoStack

C5_AsStated ==
    (MoveRan /\ (PrevGroup = {} \/ \E i \in PrevGroup : ~Occupied(prev.slots[i])))
        => /\ slots = prev.slots
           /\ players = prev.players
           /\ playerResources = prev.playerResources
           /\ playerVictoryPoints = prev.playerVictoryPoints
           /\ playerRotationPoints = prev.playerRotationPoints
           /\ actionUndoStack = prev.actionUndoStack
           /\ actionRedoStack = prev.actionRedoStack

\* C6 as stated: undoAction followed at once by redoAction leaves every slot,
\* every player's slotIndex, the counters and the current player as they
\* were before the pair.
C6_AsStated ==
    (last.op = "redoAction" /\ last2.op = "undoAction")
        => /\ slots = prev2.slots
           /\ players = prev2.players
           /\ playerResources = prev2.playerResources
           /\ playerVictoryPoints = prev2.playerVictoryPoints
           /\ playerRotationPoints = prev2.playerRotationPoints
           /\ currentPlayerIndex = prev2.currentPlayerIndex

\* C7 as stated: in a turn that already has its move, another move does not
\* change the ring, and in a turn that already has its placement, another
\* placement does not change the ring.
C7_AsStated ==
    /\ (MoveRan /\ prev.hasRotatedThisTurn) => slots = prev.slots
    /\ (PlaceRan /\ prev.hasPlacedTileThisTurn) => slots = prev.slots

\* C8 as stated: endTurn advances the current player, clears both flags and
\* both action stacks, pushes the ended turn's turn-start snapshot on the
\* turn-undo stack, records the current slots and counters under the new
\* current player as the new turn-start snapshot, and leaves slots and
\* counters alone.
C8_AsStated ==
    last.op = "endTurn"
        => /\ currentPlayerIndex = (prev.currentPlayerIndex + 1) % Cardinality(DOMAIN prev.players)
           /\ ~hasRotatedThisTurn
           /\ ~hasPlacedTileThisTurn
           /\ actionUndoStack = <<>>
           /\ actionRedoStack = <<>>
           /\ Len(turnUndoStack) = Len(prev.turnUndoStack) + 1
           /\ SubSeq(turnUndoStack, 1, Len(prev.turnUndoStack)) = prev.turnUndoStack
           /\ prev.currentTurnStartState # <<>> => Top(turnUndoStack) = prev.currentTurnStartState[1]
           /\ currentTurnStartState = <<Snapshot(PlayerCount, slotCount, slots, currentPlayerIndex, playerResources, playerVictoryPoints, playerRotationPoints)>>
           /\ slots = prev.slots
           /\ playerResources = prev.playerResources
           /\ playerVictoryPoints = prev.playerVictoryPoints
           /\ playerRotationPoints = prev.playerRotationPoints

---------------------------------------------------------------------------
(* More properties of a move *)

\* the last move was issued with a group that is non-empty and all occupied
ValidMoveRan == MoveRan /\ PrevGroup # {} /\ PrevGroup \subseteq OccupiedSet(prev.slots)

\* slot i holds a tile that was in another slot before the move
Destination(i) == Occupied(slots[i]) /\ \E j \in DOMAIN prev.slots : j # i /\ Occupied(prev.slots[j]) /\ prev.slots[j].tile = slots[i].tile

\* the tile of slot i is in another slot after the move
Vacated(i) == \E j \in DOMAIN slots : j # i /\ Occupied(slots[j]) /\ slots[j].tile = prev.slots[i].tile

---------------------------------------------------------------------------
(* More properties of a session *)

\* C12: a place into a slot that holds no tile changes only that slot, which
\* then holds the tile in hand, so the ring has one tile more; every other
\* slot, every player's slotIndex, the counters and the current player are
\* unchanged, and no tile effect is resolved.
C12_PlaceFrame ==
    (PlaceRan /\ ~Occupied(prev.slots[last.slot]))
        => /\ slots[last.slot] = FilledSlot(prev.selectedTile)
           /\ prev.selectedTile # NoTile
           /\ ~\E i \in DOMAIN prev.slots : prev.slots[i].filled /\ prev.slots[i].tile.id = prev.selectedTile.id
           /\ DOMAIN slots = DOMAIN prev.slots
           /\ \A i \in DOMAIN prev.slots : i # last.slot => slots[i] = prev.slots[i]
           /\ Cardinality(OccupiedSet(slots)) = Cardinality(OccupiedSet(prev.slots)) + 1
           /\ players = prev.players
           /\ playerResources = prev.playerResources
           /\ playerVictoryPoints = prev.playerVictoryPoints
           /\ playerRotationPoints = prev.playerRotationPoints
           /\ currentPlayerIndex = prev.currentPlayerIndex

\* a Resource tile was put down on the empty slot a player stands at, and the
\* player's resources stayed as they were
C12_Witness ==
    /\ PlaceRan
    /\ ~prev.slots[last.slot].filled
    /\ \E p \in DOMAIN players : players[p] = last.slot
    /\ slots[last.slot].tile.typeId = "resource"
    /\ playerResources = prev.playerResources

---------------------------------------------------------------------------
(* The load specification: a board constructed over whatever lies in        *)
(* localStorage, sound or not, and the save manager's save and load         *)

\* a game some turns in: the second player's turn, counters off their start values
StoredGames == {Snapshot(2, SessionRing, board, 1, [i \in Indices(2) |-> i + 1], [i \in Indices(2) |-> 1], [i \in Indices(2) |-> 2]) : board \in StartBoards(SessionRing)}

\* the same state with one slot less in its slots array
Truncated(state) == [state EXCEPT !.slots = [i \in Indices(state.slotCount - 1) |-> state.slots[i]]]

\* what can lie in storage for a game: the snapshot as written, or with no
\* version, a version or slot id that is a string, a slot whose filled is a
\* (truthy or falsy) string, or a slots array that is too short
StoredVariants(state) ==
    {Stored(state),
     [Stored(state) EXCEPT !.versionType = "undefined"],
     [Stored(state) EXCEPT !.versionType = "string"],
     [Stored(state) EXCEPT !.idType[0] = "string"],
     [Stored(state) EXCEPT !.filledType[0] = "string"],
     Stored(Truncated(state))}

StoredSnapshots == UNION {StoredVariants(state) : state \in StoredGames}

InitLoad ==
    /\ found \in {<<>>} \cup {<<stored>> : stored \in StoredSnapshots}
    /\ saves \in {<<>>} \cup {<<stored>> : stored \in StoredSnapshots}
    /\ getInitialState(found)
    /\ InitRest

NextLoad ==
    /\ steps < MaxLoadSteps
    /\ \/ \E initialSlots \in StartBoards(SessionRing) : handleStartGame(2, SessionRing, initialSlots)
       \/ handleSave
       \/ \E index \in DOMAIN saves : handleLoad(index)

SpecLoad == InitLoad /\ [][NextLoad]_vars

---------------------------------------------------------------------------
(* Properties of a load *)

\* what the spec has a load reject
Corrupt(stored) ==
    \/ stored.versionType # "number"
    \/ Cardinality(DOMAIN stored.state.slots) # stored.state.slotCount
    \/ \E i \in DOMAIN stored.state.slots : stored.idType[i] # "number" \/ stored.filledType[i] # "boolean"

\* the state of a board that found nothing to restore
FreshGame ==
    /\ gamePhase = "setup"
    /\ players = <<>>
    /\ slotCount = DefaultSlotCount
    /\ slots = createInitialSlots(DefaultSlotCount)
    /\ currentPlayerIndex = 0
    /\ playerResources = <<>>
    /\ playerVictoryPoints = <<>>
    /\ playerRotationPoints = <<>>

\* nothing of the game differs from what it was before the last handler
GameUnchanged ==
    /\ gamePhase = prev.gamePhase
    /\ slotCount = prev.slotCount
    /\ slots = prev.slots
    /\ players = prev.players
    /\ currentPlayerIndex = prev.currentPlayerIndex
    /\ playerResources = prev.playerResources
    /\ playerVictoryPoints = prev.playerVictoryPoints
    /\ playerRotationPoints = prev.playerRotationPoints

LoadRan == last.op = "load"

\* C13 as stated: a corrupt snapshot is rejected at startup and on load from
\* the save manager alike: the game is then in the fresh-game state (on load,
\* at least as it was) and nothing of the snapshot is applied.
C13_AsStated ==
    /\ (steps = 0 /\ found # <<>> /\ Corrupt(found[1])) => FreshGame
    /\ (LoadRan /\ Corrupt(prev.saves[last.slot])) => (FreshGame \/ GameUnchanged)

\* the startup half of C13 alone (it holds)
C13_StartupRejects == (steps = 0 /\ found # <<>> /\ Corrupt(found[1])) => FreshGame

\* C14 as stated: a valid snapshot is restored whole, at startup and on load:
\* slots, current player and every counter are the snapshot's.
C14_AsStated ==
    /\ (steps = 0 /\ found # <<>> /\ ~Corrupt(found[1]))
          => /\ slots = found[1].state.slots
             /\ currentPlayerIndex = found[1].state.currentPlayerIndex
             /\ playerResources = found[1].state.playerResources
             /\ playerVictoryPoints = found[1].state.playerVictoryPoints
             /\ playerRotationPoints = found[1].state.playerRotationPoints
    /\ (LoadRan /\ ~Corrupt(prev.saves[last.slot]))
          => /\ slots = prev.saves[last.slot].state.slots
             /\ currentPlayerIndex = prev.saves[last.slot].state.currentPlayerIndex
             /\ playerResources = prev.saves[last.slot].state.playerResources
             /\ playerVictoryPoints = prev.saves[last.slot].state.playerVictoryPoints
             /\ playerRotationPoints = prev.saves[last.slot].state.playerRotationPoints

\* the load half of C14 alone (it holds)
C14_LoadRestores ==
    (LoadRan /\ ~Corrupt(prev.saves[last.slot]))
        => /\ slots = prev.saves[last.slot].state.slots
           /\ currentPlayerIndex = prev.saves[last.slot].state.currentPlayerIndex
           /\ playerResources = prev.saves[last.slot].state.playerResources
           /\ playerVictoryPoints = prev.saves[last.slot].state.playerVictoryPoints
           /\ playerRotationPoints = prev.saves[last.slot].state.playerRotationPoints

---------------------------------------------------------------------------
(* The player specification: two players on rings of the sizes the setup    *)
(* screen offers, full of blank tiles but for Movement tiles on the slots   *)
(* next to the players, which a move by one step brings under them.         *)

MovementKinds ==
    {[typeId |-> "blank", value |-> Undefined, direction |-> "undefined"]}
        \cup {[typeId |-> "movement", value |-> v, direction |-> d] : v \in 1 .. MaxMovementValue, d \in {"left", "right"}}

\* the player whose neighbour slot i is, or Undefined
NeighbourOf(i, pc, n) == IF \E p \in Indices(pc) : i \in {Wrap(createPlayers(pc, n)[p] - 1, n), Wrap(createPlayers(pc, n)[p] + 1, n)} THEN CHOOSE p \in Indices(pc) : i \in {Wrap(createPlayers(pc, n)[p] - 1, n), Wrap(createPlayers(pc, n)[p] + 1, n)} ELSE Undefined

PlayerRing(kinds, n) == [i \in Indices(n) |-> IF NeighbourOf(i, 2, n) # Undefined THEN FilledSlot(MkTile(i, kinds[NeighbourOf(i, 2, n)].typeId, kinds[NeighbourOf(i, 2, n)].value, Undefined, kinds[NeighbourOf(i, 2, n)].direction)) ELSE FilledSlot(BlankTile(i))]

InitPlayers ==
    /\ \E n \in MinTileCount .. MaxTileCount : \E first \in MovementKinds : \E second \in {k \in MovementKinds : k.typeId = "blank" \/ (k.value = MaxMovementValue /\ k.direction = "left")} :
          InitTurnStart(2, n, PlayerRing([p \in Indices(2) |-> IF p = 0 THEN first ELSE second], n), ZeroCounters(2))
    /\ selectedGroup = NullGroup
    /\ prev = Now
    /\ prev2 = prev

NextPlayers ==
    /\ steps < 2
    /\ \/ \E direction \in Directions : \E amount \in Amounts(MaxAmount, slotCount) : handleRotate(direction, amount)
       \/ handleEndTurn
       \/ \E tile \in Palette : handleSelectTile(tile.typeId, tile.value, tile.ownerId, tile.direction)
       \/ \E p \in DOMAIN players : handleSlotClick(players[p])

SpecPlayers == InitPlayers /\ [][NextPlayers]_vars

---------------------------------------------------------------------------
(* Properties of the players *)

\* where the pass of the last move puts player p
MovedPlayer(p) ==
    LET tile == AlignedTile(p)
    IN  IF tile.typeId = "movement"
        THEN IF TileDirection(tile) = "left"
             THEN (prev.players[p] + prev.slotCount * TileValue(tile) - TileValue(tile)) % prev.slotCount
             ELSE (prev.players[p] + TileValue(tile)) % prev.slotCount
        ELSE prev.players[p]

\* C15: every player's slotIndex is in [0, N); a place and an endTurn leave
\* every slotIndex alone, and a move changes the slotIndex of exactly the
\* players aligned with a Movement tile after it, to (slotIndex - value) mod N
\* for Left and (slotIndex + value) mod N for Right.
C15_PlayerIndex ==
    /\ \A p \in DOMAIN players : players[p] \in Indices(slotCount)
    /\ last.op \in {"place", "endTurn"} => players = prev.players
    /\ MoveRan => /\ DOMAIN players = DOMAIN prev.players
                  /\ \A p \in DOMAIN players : players[p] = MovedPlayer(p)

\* a move brought a Movement tile going Left under a player whose slotIndex is
\* less than its value, and one going Right under nobody else
C15_Witness ==
    /\ MoveRan
    /\ slotCount >= MinTileCount
    /\ \E p \in DOMAIN players :
          /\ AlignedTile(p).typeId = "movement"
          /\ AlignedTile(p).direction = "left"
          /\ prev.players[p] < AlignedTile(p).value
          /\ players[p] = prev.slotCount + prev.players[p] - AlignedTile(p).value
    /\ \E q \in DOMAIN players : AlignedTile(q).typeId = "blank" /\ players[q] = prev.players[q]

---------------------------------------------------------------------------
(* More properties of an effect pass *)

\* C16: no player's resources and no player's victory points are ever
\* negative, also when one pass hands a player a transfer and converts that
\* player's resources on a Victory tile.
C16_NonNegative ==
    /\ \A p \in DOMAIN playerResources : playerResources[p] >= 0
    /\ \A p \in DOMAIN playerVictoryPoints : playerVictoryPoints[p] >= 0

\* one pass converted player p's resources on a Victory tile and handed p
\* the resources of player q, who stood on p's Transfer tile and is left
\* with none
C16_Witness ==
    /\ MoveRan
    /\ \E p \in PlayerIds : \E q \in PlayerIds \ {p} :
          /\ AlignedTile(p).typeId = "victory"
          /\ prev.playerResources[p] >= TileValue(AlignedTile(p))
          /\ AlignedTile(q).typeId = "transfer"
          /\ AlignedTile(q).ownerId = p
          /\ prev.playerResources[q] > 0
          /\ playerResources[q] = 0
          /\ playerResources[p] = prev.playerResources[p] - TileValue(AlignedTile(p)) + prev.playerResources[q]
          /\ playerVictoryPoints[p] = prev.playerVictoryPoints[p] + TileValue(AlignedTile(p))

---------------------------------------------------------------------------
(* The chain specification: one call of moveGroup with every amount from 0  *)
(* to past the ring's size, on small rings of blank tiles.                  *)

InitChain ==
    /\ \E n \in 2 .. ChainRing : \E filled \in SUBSET Indices(n) : InitTurnStart(2, n, BlankRing(filled, n), ZeroCounters(2))
    /\ selectedGroup \in {NullGroup} \cup {Group(a) : a \in Arcs(slotCount)}
    /\ prev = Now
    /\ prev2 = prev

NextChain == steps < 1 /\ \E direction \in Directions : \E amount \in 0 .. (slotCount + ExtraAmount) : handleRotate(direction, amount)

SpecChain == InitChain /\ [][NextChain]_vars

---------------------------------------------------------------------------
(* Properties of the chain loop *)

\* remainingMovement at the head of every iteration of the loop, and after it
RECURSIVE ChainRemaining(_, _, _, _, _)
ChainRemaining(workingSlots, currentGroup, remainingMovement, direction, n) ==
    IF remainingMovement <= 0 THEN <<remainingMovement>>
    ELSE LET next == ChainStep(workingSlots, currentGroup, remainingMovement, direction, n)
         IN  <<remainingMovement>> \o ChainRemaining(next.slots, next.group, next.remainingMovement, direction, n)

LastRemaining == ChainRemaining(prev.slots, PrevGroup, last.amount, last.direction, prev.slotCount)

\* the empty slots ahead of the group of the last move, up to the next tile
RoomAhead == findDistanceToCollision(PrevGroup, last.direction, prev.slots, prev.slotCount) - 1

\* C17: a move of a non-empty all-occupied group on a ring that is not full
\* runs the chain loop to its end for every amount from 0 on: the remaining
\* movement starts at the amount, every iteration makes it strictly smaller,
\* and the loop stops with it at exactly 0.
C17_ChainTerminates ==
    (ValidMoveRan /\ ~areAllSlotsFilled(prev.slots))
        => /\ LastRemaining[1] = last.amount
           /\ \A k \in 1 .. (Len(LastRemaining) - 1) : LastRemaining[k + 1] < LastRemaining[k]
           /\ LastRemaining[Len(LastRemaining)] = 0
           /\ Len(LastRemaining) <= last.amount + 1

\* a move by at least the ring's size and by more than the room ahead of the
\* group, which ran the loop more than twice
C17_Witness ==
    /\ ValidMoveRan
    /\ ~areAllSlotsFilled(prev.slots)
    /\ last.amount >= prev.slotCount
    /\ last.amount > RoomAhead
    /\ FilledCount(prev.slots) > Cardinality(PrevGroup)
    /\ Len(LastRemaining) > 3
    /\ LastRemaining[Len(LastRemaining)] = 0

\* a move by 0, which never enters the loop
C17_WitnessZero ==
    /\ ValidMoveRan
    /\ ~areAllSlotsFilled(prev.slots)
    /\ last.amount = 0
    /\ LastRemaining = <<0>>
    /\ slots = prev.slots

---------------------------------------------------------------------------
(* The connectivity specification: one selection on every ring of blank     *)
(* tiles up to ConnectRing slots.                                           *)

InitConnect ==
    /\ \E n \in 2 .. ConnectRing : \E filled \in SUBSET Indices(n) : InitTurnStart(2, n, BlankRing(filled, n), ZeroCounters(2))
    /\ selectedGroup = NullGroup
    /\ prev = Now
    /\ prev2 = prev

NextConnect == steps < 1 /\ \E slotIndex \in DOMAIN slots : handleSelectGroup(slotIndex)

SpecConnect == InitConnect /\ [][NextConnect]_vars

---------------------------------------------------------------------------
(* Properties of connectivity *)

\* every slot on the way from start to start + side * k holds a tile
RunTo(start, side, k) == \A j \in 0 .. k : Occupied(slots[Wrap(start + side * j, slotCount)])

\* the maximal run of occupied slots around start, walking both ways
MaximalRun(start) ==
    IF ~Occupied(slots[start]) THEN {}
    ELSE {i \in Indices(slotCount) : \E k \in 0 .. (slotCount - 1) : \E side \in {1, 0 - 1} : i = Wrap(start + side * k, slotCount) /\ RunTo(start, side, k)}

\* C18: from every start slot findConnectedGroup returns the maximal run of
\* occupied slots around it under circular adjacency, and the empty set from
\* an empty slot; from every member of the result it returns the same set;
\* a selection is the run around the slot that was clicked.
C18_ConnectedGroup ==
    /\ \A start \in Indices(slotCount) :
          /\ findConnectedGroup(start, slots, slotCount) = MaximalRun(start)
          /\ \A member \in findConnectedGroup(start, slots, slotCount) : findConnectedGroup(member, slots, slotCount) = findConnectedGroup(start, slots, slotCount)
    /\ last.op = "select" => selectedGroup = Group(MaximalRun(last.slot))

\* the selection of a run of at least three slots that wraps around index 0
\* on a ring that is not full, whose empty slots give the empty set
C18_Witness ==
    /\ last.op = "select"
    /\ {0, slotCount - 1} \subseteq selectedGroup.members
    /\ Cardinality(selectedGroup.members) >= 3
    /\ last.slot \notin {0, slotCount - 1}
    /\ \E i \in Indices(slotCount) : ~Occupied(slots[i]) /\ findConnectedGroup(i, slots, slotCount) = {}
    /\ \E i \in Indices(slotCount) : Occupied(slots[i]) /\ i \notin selectedGroup.members

\* the selection of a ring that is full
C18_WitnessFullRing ==
    /\ last.op = "select"
    /\ areAllSlotsFilled(slots)
    /\ slotCount > 2
    /\ selectedGroup.members = Indices(slotCount)

---------------------------------------------------------------------------
(* The selection specification: two moves in a row within one turn, from    *)
(* the rings and selections of the chain specification.                     *)

NextSelection == steps < 2 /\ \E direction \in Directions : \E amount \in Amounts(MaxAmount, slotCount) : handleRotate(direction, amount)

SpecSelection == InitChain /\ [][NextSelection]_vars

---------------------------------------------------------------------------
(* Properties of the selection *)

\* the slots that hold something the last move brought there
MovedSlots == {i \in DOMAIN slots : slots[i].filled /\ slots[i] # prev.slots[i]}

\* C19: after every move the selection is a whole connected group, it holds
\* every slot the move brought a tile to, and it has at least as many slots
\* as the group the move was issued with; so over two moves in a row the
\* selection never gets smaller.
C19_SelectionGrows ==
    MoveRan
        => /\ ~selectedGroup.isNull
           /\ selectedGroup.members # {}
           /\ \A member \in selectedGroup.members : findConnectedGroup(member, slots, slotCount) = selectedGroup.members
           /\ MovedSlots \subseteq selectedGroup.members
           /\ Cardinality(selectedGroup.members) >= Cardinality(PrevGroup)
           /\ last2.op = "move" => Cardinality(selectedGroup.members) >= Cardinality(prev.selectedGroup.members)

\* two moves in a row of groups of tiles, the second of which ran into
\* another group and left a selection larger than the one it started with
C19_Witness ==
    /\ MoveRan
    /\ last2.op = "move"
    /\ PrevGroup \subseteq OccupiedSet(prev.slots)
    /\ ~areAllSlotsFilled(prev.slots)
    /\ Cardinality(selectedGroup.members) > Cardinality(prev.selectedGroup.members)
    /\ Cardinality(prev.selectedGroup.members) > 1

---------------------------------------------------------------------------
(* Properties of the turn-undo control *)

\* a click on the control takes handleTurnUndo's restart branch
RestartTaken == turnUndoMode = "restart" /\ currentTurnStartState # <<>>

\* a click on the control takes handleTurnUndo's previous-turn branch
PrevTaken == turnUndoMode = "prev" /\ Len(turnUndoStack) > 0

\* C20: while a game is played the turn-undo control performs restartTurn
\* exactly when the turn's action history is not empty, performs prevTurn
\* exactly when it is empty and an earlier turn is recorded, and is disabled
\* otherwise; a restartTurn is only performed after a place or a move of
\* the turn.
C20_AsStated ==
    /\ gamePhase = "playing"
          => /\ RestartTaken <=> Len(actionUndoStack) > 0
             /\ PrevTaken <=> (Len(actionUndoStack) = 0 /\ Len(turnUndoStack) > 0)
             /\ turnUndoMode = "disabled" <=> (Len(actionUndoStack) = 0 /\ Len(turnUndoStack) = 0)
    /\ last.op = "restartTurn" => Len(prev.actionUndoStack) > 0 /\ (prev.hasRotatedThisTurn \/ prev.hasPlacedTileThisTurn \/ Len(prev.actionRedoStack) > 0)

---------------------------------------------------------------------------
(* The turn specification: five handlers from the start of a game's first   *)
(* turn, the start of the turn being known throughout.                      *)

InitTurn ==
    /\ \E board \in StartBoards(SessionRing) : InitTurnStart(2, SessionRing, board, ZeroCounters(2))
    /\ selectedGroup = NullGroup
    /\ prev = Now
    /\ prev2 = prev

NextTurn ==
    /\ steps < 5
    /\ \/ \E tile \in Palette : handleSelectTile(tile.typeId, tile.value, tile.ownerId, tile.direction)
       \/ \E slotIndex \in Indices(slotCount) : handleSlotClick(slotIndex)
       \/ \E slotIndex \in Indices(slotCount) : handleSelectGroup(slotIndex)
       \/ \E direction \in Directions : \E amount \in Amounts(MaxAmount, slotCount) : handleRotate(direction, amount)
       \/ handleEndTurn
       \/ handleActionUndo
       \/ handleActionRedo
       \/ handleTurnUndo
       \/ handleTurnRedo

SpecTurn == InitTurn /\ [][NextTurn]_vars

---------------------------------------------------------------------------
(* Properties of the turn history *)

\* C21: restartTurn puts the slots, the counters and the current player
\* back to what they were when the current turn began, whatever was placed,
\* moved, undone and redone since, and leaves both action stacks empty.
C21_AsStated ==
    (last.op = "restartTurn" /\ turnStart # <<>>)
        => /\ TurnFrame = turnStart[1]
           /\ actionUndoStack = <<>>
           /\ actionRedoStack = <<>>

---------------------------------------------------------------------------
(* The pass specification: one move on rings whose tiles are blank or       *)
(* Resource tiles of value 1, so that every tile that comes to rest under   *)
(* a player shows in that player's resources.                               *)

PassKinds == {"empty", "blank", "resource"}

PassRingOf(kinds) == [i \in DOMAIN kinds |-> IF kinds[i] = "empty" THEN EmptySlot ELSE IF kinds[i] = "blank" THEN FilledSlot(BlankTile(i)) ELSE FilledSlot(MkTile(i, "resource", 1, Undefined, "undefined"))]

InitPass ==
    /\ \E n \in 3 .. PassRing : \E kinds \in [Indices(n) -> PassKinds] : InitTurnStart(2, n, PassRingOf(kinds), ZeroCounters(2))
    /\ selectedGroup \in {NullGroup} \cup {Group(a) : a \in Arcs(slotCount)}
    /\ prev = Now
    /\ prev2 = prev

NextPass == steps < 1 /\ \E direction \in Directions : \E amount \in Amounts(MaxAmount, slotCount) : handleRotate(direction, amount)

SpecPass == InitPass /\ [][NextPass]_vars

---------------------------------------------------------------------------
(* Properties of the pass of a move *)

\* the slot where the tile with this id lies on the ring sl
SlotOf(sl, id) == CHOOSE i \in DOMAIN sl : Occupied(sl[i]) /\ sl[i].tile.id = id

\* the tile with this id went over player p's slot during the last move: it
\* lay k < amount slots before the slot and lies amount - k slots past it
PassedOver(id, p) ==
    \E k \in 1 .. (last.amount - 1) :
        /\ SlotOf(prev.slots, id) = Wrap(prev.players[p] - DirStep(last.direction) * k, prev.slotCount)
        /\ SlotOf(slots, id) = Wrap(prev.players[p] + DirStep(last.direction) * (last.amount - k), prev.slotCount)

\* C22: a move resolves the effects once and against the ring it leaves:
\* each player gains exactly the value of the Resource tile that lies at the
\* player's slot after the move, and nothing when another tile or none lies
\* there, whatever tiles went over the slot on the way.
C22_EffectsOnFinalRing ==
    MoveRan
        => /\ players = prev.players
           /\ playerVictoryPoints = prev.playerVictoryPoints
           /\ currentPlayerIndex = prev.currentPlayerIndex
           /\ \A p \in PlayerIds : playerResources[p] = prev.playerResources[p] + (IF AlignedTile(p).typeId = "resource" THEN TileValue(AlignedTile(p)) ELSE 0)

\* a chain move on a ring that is not full took a Resource tile over one
\* player's slot, who gained nothing, and left one at rest under the other
\* player, who gained its value once
C22_Witness ==
    /\ ValidMoveRan
    /\ ~areAllSlotsFilled(prev.slots)
    /\ Len(LastRemaining) > 2
    /\ \E p \in PlayerIds : \E q \in PlayerIds \ {p} :
          /\ \E id \in IdsOn(prev.slots) : prev.slots[SlotOf(prev.slots, id)].tile.typeId = "resource" /\ PassedOver(id, p)
          /\ playerResources[p] = prev.playerResources[p]
          /\ AlignedTile(q).typeId = "resource"
          /\ playerResources[q] = prev.playerResources[q] + 1

---------------------------------------------------------------------------
(* The skip specification: one rotation of a full ring of blank and Skip    *)
(* tiles under three players.                                               *)

SkipKinds(pc) ==
    {[typeId |-> "blank", value |-> Undefined, ownerId |-> Undefined]}
        \cup {[typeId |-> "skip", value |-> Undefined, ownerId |-> o] : o \in Indices(pc) \cup {Undefined}}

InitSkip ==
    /\ \E ring \in [Indices(SkipRing) -> SkipKinds(3)] : InitTurnStart(3, SkipRing, EffectSlots(ring), ZeroCounters(3))
    /\ selectedGroup = NullGroup
    /\ prev = Now
    /\ prev2 = prev

NextSkip == steps < 1 /\ \E direction \in Directions : \E amount \in Amounts(MaxAmount, slotCount) : handleRotate(direction, amount)

SpecSkip == InitSkip /\ [][NextSkip]_vars

---------------------------------------------------------------------------
(* Properties of Skip *)

\* the players who stand on a Skip tile that has an owner after the last move
Skipped == {p \in PlayerIds : AlignedTile(p).typeId = "skip" /\ AlignedTile(p).ownerId # Undefined}

Highest(S) == CHOOSE p \in S : \A q \in S : q <= p

\* C23: after the pass of a move the current player is the owner of the Skip
\* tile under the highest-id player who stands on a Skip tile with an owner,
\* and is who it was when no player stands on one.
C23_SkipOrder ==
    MoveRan
        => currentPlayerIndex = IF Skipped = {} THEN prev.currentPlayerIndex ELSE AlignedTile(Highest(Skipped)).ownerId

\* two players stand on Skip tiles of different owners, neither the player
\* whose turn it was, and the owner of the higher player's tile has the turn
C23_Witness ==
    /\ MoveRan
    /\ \E p \in Skipped : \E q \in Skipped :
          /\ p < q
          /\ q = Highest(Skipped)
          /\ AlignedTile(p).ownerId # AlignedTile(q).ownerId
          /\ AlignedTile(p).ownerId # prev.currentPlayerIndex
          /\ currentPlayerIndex = AlignedTile(q).ownerId
          /\ currentPlayerIndex # prev.currentPlayerIndex

\* no player stands on a Skip tile with an owner and the turn stays
C23_WitnessNoSkip ==
    /\ MoveRan
    /\ Skipped = {}
    /\ \E p \in PlayerIds : AlignedTile(p).typeId = "skip"
    /\ currentPlayerIndex = prev.currentPlayerIndex

---------------------------------------------------------------------------
(* Properties of the travel of a move *)

\* the last move was issued with a whole connected group of tiles on a ring
\* with an empty slot
MaximalMoveRan ==
    /\ ValidMoveRan
    /\ ~areAllSlotsFilled(prev.slots)
    /\ \A member \in PrevGroup : findConnectedGroup(member, prev.slots, prev.slotCount) = PrevGroup

\* C24: on a ring with an empty slot, a move of a whole connected group by
\* an amount in a direction leaves every tile of the group exactly that many
\* slots on in that direction (mod N), whatever it ran into on the way.
C24_FullTravel ==
    MaximalMoveRan
        => \A i \in PrevGroup :
              /\ Occupied(slots[MovedIndex(i, last.direction, last.amount, prev.slotCount)])
              /\ slots[MovedIndex(i, last.direction, last.amount, prev.slotCount)].tile = prev.slots[i].tile

\* a whole connected group ran into two other groups one after the other,
\* travelling farther than the room ahead of it, and its tiles lie the
\* whole amount on
C24_Witness ==
    /\ MaximalMoveRan
    /\ last.amount > RoomAhead + 1
    /\ Cardinality(selectedGroup.members) >= Cardinality(PrevGroup) + 2
    /\ \E i \in PrevGroup : \E j \in OccupiedSet(prev.slots) \ PrevGroup : \E k \in OccupiedSet(prev.slots) \ PrevGroup :
          /\ j # k
          /\ findConnectedGroup(j, prev.slots, prev.slotCount) # findConnectedGroup(k, prev.slots, prev.slotCount)
          /\ slots[j] # prev.slots[j]
          /\ slots[k] # prev.slots[k]
          /\ slots[MovedIndex(i, last.direction, last.amount, prev.slotCount)].tile = prev.slots[i].tile

---------------------------------------------------------------------------
(* Properties of the frame of a move *)

\* the slots of the moving body when the collision loop of the last move ends
LastBody == ChainLoop(prev.slots, PrevGroup, last.amount, last.direction, prev.slotCount).group

\* the tile ids on the ring sl from slot i on, in slot order
RECURSIVE IdsFrom(_, _, _)
IdsFrom(sl, i, n) == IF i >= n THEN <<>> ELSE (IF Occupied(sl[i]) THEN <<sl[i].tile.id>> ELSE <<>>) \o IdsFrom(sl, i + 1, n)

\* s is t read from another place round the ring
SameCycle(s, t) == Len(s) = Len(t) /\ (Len(s) = 0 \/ \E r \in 0 .. (Len(s) - 1) : \A k \in 1 .. Len(s) : t[k] = s[((k - 1 + r) % Len(s)) + 1])

\* C25: after a move of a group of tiles on a ring with an empty slot, every
\* tile that is not part of the moving body (the group and the groups it
\* merged) lies in the slot it lay in before, and the tiles follow each
\* other round the ring in the same order as before.
C25_MoveFrame ==
    (ValidMoveRan /\ ~areAllSlotsFilled(prev.slots))
        => /\ \A i \in OccupiedSet(prev.slots) : (i \notin PrevGroup /\ \A b \in LastBody : slots[b].tile # prev.slots[i].tile) => slots[i] = prev.slots[i]
           /\ \A i \in DOMAIN slots \ LastBody : slots[i] = prev.slots[i] \/ (~slots[i].filled /\ Vacated(i))
           /\ SameCycle(IdsFrom(prev.slots, 0, prev.slotCount), IdsFrom(slots, 0, slotCount))

\* a group ran into a second group and took it along while a third group,
\* not touched, lies where it lay; the tiles now start round the ring from
\* another tile
C25_Witness ==
    /\ ValidMoveRan
    /\ ~areAllSlotsFilled(prev.slots)
    /\ Cardinality(LastBody) > Cardinality(PrevGroup)
    /\ \E i \in OccupiedSet(prev.slots) \ PrevGroup : i \notin LastBody /\ slots[i] = prev.slots[i] /\ \A b \in LastBody : slots[b].tile # prev.slots[i].tile
    /\ IdsFrom(prev.slots, 0, prev.slotCount) # IdsFrom(slots, 0, slotCount)

---------------------------------------------------------------------------
(* Properties of the selection over a session *)

\* C26: in every state of a session a selection holds only slots that hold
\* a tile, and every slot marked filled holds a tile.
C26_AsStated ==
    /\ ~selectedGroup.isNull => selectedGroup.members \subseteq OccupiedSet(slots)
    /\ \A i \in DOMAIN slots : slots[i].filled => slots[i].tile # NoTile

---------------------------------------------------------------------------
(* Properties of the action history *)

\* the snapshot getCurrentState takes of a recorded state
SnapshotOf(state) == Snapshot(Cardinality(DOMAIN state.players), state.slotCount, state.slots, state.currentPlayerIndex, state.playerResources, state.playerVictoryPoints, state.playerRotationPoints)

\* C27: an undoAction right after a place or a move puts the slots, the
\* counters, the current player and the two per-turn flags back to what they
\* were just before that action, pushes the undone state on the redo stack
\* and pops one entry off the undo stack.
C27_AsStated ==
    (last.op = "undoAction" /\ last2.op \in {"place", "move"})
        => /\ slots = prev2.slots
           /\ playerResources = prev2.playerResources
           /\ playerVictoryPoints = prev2.playerVictoryPoints
           /\ playerRotationPoints = prev2.playerRotationPoints
           /\ currentPlayerIndex = prev2.currentPlayerIndex
           /\ hasRotatedThisTurn = prev2.hasRotatedThisTurn
           /\ hasPlacedTileThisTurn = prev2.hasPlacedTileThisTurn
           /\ actionRedoStack = Append(prev.actionRedoStack, SnapshotOf(prev))
           /\ actionUndoStack = Pop(prev.actionUndoStack)

---------------------------------------------------------------------------
(* More properties of the turn history *)

\* C28: a turn redo right after a restartTurn puts the slots, the counters
\* and the current player back to what they were before the restartTurn and
\* leaves the turn-undo stack (so the turn number shown) and the turn-start
\* snapshot as they were before it.
C28_AsStated ==
    (last.op = "turnRedo" /\ last2.op = "restartTurn")
        => /\ slots = prev2.slots
           /\ playerResources = prev2.playerResources
           /\ playerVictoryPoints = prev2.playerVictoryPoints
           /\ playerRotationPoints = prev2.playerRotationPoints
           /\ currentPlayerIndex = prev2.currentPlayerIndex
           /\ turnUndoStack = prev2.turnUndoStack
           /\ currentTurnStartState = prev2.currentTurnStartState

---------------------------------------------------------------------------
(* Properties of the redo stacks *)

\* C29: right after a place, a move or an endTurn both redo stacks are
\* empty, so neither redoAction nor turn redo can be performed.
C29_AsStated ==
    last.op \in {"place", "move", "endTurn"} => (actionRedoStack = <<>> /\ turnRedoStack = <<>>)

---------------------------------------------------------------------------
(* Properties of Transfer *)

\* C30: a pass in which no player stands on a tile other than a Transfer
\* tile or a blank one leaves the sum of all players' resources as it was.
C30_AsStated ==
    (MoveRan /\ \A p \in PlayerIds : AlignedTile(p).typeId \in {"transfer", "blank"})
        => Sum(playerResources, DOMAIN playerResources) = Sum(prev.playerResources, DOMAIN prev.playerResources)

====
